---- MODULE Spec2Model ----
(***************************************************************************)
(* Model of chess_OOP.py: the pieces' move generation, the boards          *)
(* (ChessBoard, CheckerBoard), MoveHint, ThreatDetector, MoveHistory and   *)
(* the game loop of ChessGame / CheckerGame.                               *)
(*                                                                         *)
(* Boards are mutable Python objects, so they live in a heap of objects    *)
(* addressed by identifiers: the game, the history and a caller hold       *)
(* references, copy.deepcopy allocates a fresh object.                     *)
(***************************************************************************)
EXTENDS Integers, Sequences, FiniteSets, TLC

VARIABLES
    mode,        \* ChessGame.mode: "classic", "modified", "checkers" ("api": a bare board)
    heap,        \* object id -> board object (cls, grid, hints, threatened, is_check)
    live,        \* ChessGame.board: the id of the live board
    history,     \* MoveHistory.history: sequence of ids of the stored snapshots
    turn,        \* ChessGame.turn
    move_count,  \* ChessGame.move_count
    pc,          \* position of play(): "turn", "select", "dest", "done", "crashed", "api"
    start,       \* the local variable start of play() while a destination is asked
    call,        \* the last call made: operation, arguments, result
    pre,         \* the grid of the live board right before the last call
    trail        \* the layouts the live board went through, one per move in effect

vars == <<mode, heap, live, history, turn, move_count, pc, start, call, pre, trail>>

-----------------------------------------------------------------------------
(* Bounds of the model *)

\* moves and undos a game with undo commands is followed for (a cap on move_count)
MaxMoveCount == 4
\* moves a game without undo commands is followed for (a cap on move_count)
MaxPlayMoves == 10
\* men on a bare checkers board
MaxMen == 3
\* largest number of steps typed after "undo"
MaxUndoSteps == 3
\* other pieces around the piece whose moves are generated on a bare chess board
MaxBlockers == 2
\* accepted calls of move_piece on a board that starts from the checkers layout
MaxCheckerMoves == 4

-----------------------------------------------------------------------------
(* Squares, colors, pieces *)

\* the side of the board: range(8), 0 <= x < 8
N == 8

Rows == 0..(N - 1)
Squares == Rows \X Rows
Colors == {"white", "black"}
ChessKinds == {"King", "Queen", "Rook", "Bishop", "Knight", "Pawn",
               "Archer", "Striker", "Oracle"}
Kinds == ChessKinds \cup {"CheckerPiece"}

\* Python's None in a cell of the grid
None == [kind |-> "None", color |-> "none"]
Piece(k, c) == [kind |-> k, color |-> c]
Other(c) == IF c = "white" THEN "black" ELSE "white"

EmptyGrid == [sq \in Squares |-> None]

RECURSIVE ConcatAll(_)
ConcatAll(ss) == IF ss = <<>> THEN <<>> ELSE Head(ss) \o ConcatAll(Tail(ss))

Range(s) == {s[i] : i \in 1..Len(s)}

\* 0 <= x < 8 and 0 <= y < 8
InBounds(x, y) == x >= 0 /\ x < N /\ y >= 0 /\ y < N

\* a Python list of 8 items accepts the indexes -8..7 and raises IndexError otherwise
PyIndexOk(i) == i >= -N /\ i < N
PyIndex(i) == i % N

\* ChessBoard.get_piece / CheckerBoard.get_piece: self.board[x][y]
GetPieceRaises(pos) == ~(PyIndexOk(pos[1]) /\ PyIndexOk(pos[2]))
GetPiece(grid, pos) == grid[<<PyIndex(pos[1]), PyIndex(pos[2])>>]

-----------------------------------------------------------------------------
(* Move generation: valid_moves of every piece class *)

\* the loop with "if not piece": an occupied square is never a destination
OffsetMovesToEmpty(grid, pos, color, offsets) ==
    ConcatAll([i \in 1..Len(offsets) |->
        LET x == pos[1] + offsets[i][1]
            y == pos[2] + offsets[i][2]
        IN  IF InBounds(x, y) /\ GetPiece(grid, <<x, y>>) = None
            THEN << <<x, y>> >> ELSE <<>>])

\* the loop shared by King, Knight, Oracle and the first loop of Archer
OffsetMoves(grid, pos, color, offsets) ==
    ConcatAll([i \in 1..Len(offsets) |->
        LET x == pos[1] + offsets[i][1]
            y == pos[2] + offsets[i][2]
        IN  IF InBounds(x, y) /\ (GetPiece(grid, <<x, y>>) = None
                                  \/ GetPiece(grid, <<x, y>>).color # color)
            THEN << <<x, y>> >> ELSE <<>>])

KingDirections == << <<-1, -1>>, <<-1, 0>>, <<-1, 1>>, <<0, -1>>,
                     <<0, 1>>, <<1, -1>>, <<1, 0>>, <<1, 1>> >>
KingMoves(grid, pos, color) == OffsetMoves(grid, pos, color, KingDirections)

KnightOffsets == << <<-2, -1>>, <<-2, 1>>, <<-1, -2>>, <<-1, 2>>,
                    <<1, -2>>, <<1, 2>>, <<2, -1>>, <<2, 1>> >>
KnightMoves(grid, pos, color) == OffsetMoves(grid, pos, color, KnightOffsets)

OracleDirections == << <<-2, -2>>, <<-2, 0>>, <<-2, 2>>, <<0, -2>>,
                       <<0, 2>>, <<2, -2>>, <<2, 0>>, <<2, 2>> >>
OracleMoves(grid, pos, color) == OffsetMoves(grid, pos, color, OracleDirections)

\* the while loop of get_linear_moves without the break after an enemy piece
RECURSIVE LinearRayThrough(_, _, _, _, _, _)
LinearRayThrough(grid, x, y, dx, dy, color) ==
    LET nx == x + dx
        ny == y + dy
    IN  IF InBounds(nx, ny)
        THEN IF GetPiece(grid, <<nx, ny>>) # None
             THEN IF GetPiece(grid, <<nx, ny>>).color # color
                  THEN << <<nx, ny>> >> \o LinearRayThrough(grid, nx, ny, dx, dy, color)
                  ELSE <<>>
             ELSE << <<nx, ny>> >> \o LinearRayThrough(grid, nx, ny, dx, dy, color)
        ELSE <<>>

\* one direction of the while loop of get_linear_moves, from (x, y) onwards
RECURSIVE LinearRay(_, _, _, _, _, _)
LinearRay(grid, x, y, dx, dy, color) ==
    LET nx == x + dx
        ny == y + dy
    IN  IF InBounds(nx, ny)
        THEN IF GetPiece(grid, <<nx, ny>>) # None
             THEN IF GetPiece(grid, <<nx, ny>>).color # color
                  THEN << <<nx, ny>> >> ELSE <<>>
             ELSE << <<nx, ny>> >> \o LinearRay(grid, nx, ny, dx, dy, color)
        ELSE <<>>

\* ChessBoard.get_linear_moves
GetLinearMoves(grid, pos, color, directions) ==
    ConcatAll([i \in 1..Len(directions) |->
        LinearRay(grid, pos[1], pos[2], directions[i][1], directions[i][2], color)])

RookDirections == << <<1, 0>>, <<-1, 0>>, <<0, 1>>, <<0, -1>> >>
BishopDirections == << <<1, 1>>, <<-1, -1>>, <<1, -1>>, <<-1, 1>> >>
RookMoves(grid, pos, color) == GetLinearMoves(grid, pos, color, RookDirections)
BishopMoves(grid, pos, color) == GetLinearMoves(grid, pos, color, BishopDirections)
\* Queen.valid_moves that adds the Rook's list twice
QueenMovesRookTwice(grid, pos, color) ==
    RookMoves(grid, pos, color) \o RookMoves(grid, pos, color)
QueenMoves(grid, pos, color) == RookMoves(grid, pos, color) \o BishopMoves(grid, pos, color)

\* Pawn.valid_moves
PawnDirection(color) == IF color = "white" THEN -1 ELSE 1
PawnStartRow(color) == IF color = "white" THEN 6 ELSE 1

\* the first read, board.get_piece(forward), is the only one that can leave the
\* index range: the later reads are on the same row or one the start row reaches
PawnRaises(pos, color) == GetPieceRaises(<<pos[1] + PawnDirection(color), pos[2]>>)

PawnMoves(grid, pos, color) ==
    LET d == PawnDirection(color)
        forward == <<pos[1] + d, pos[2]>>
        double_forward == <<pos[1] + 2 * d, pos[2]>>
        fwd == IF GetPiece(grid, forward) = None
               THEN << forward >> \o
                    (IF pos[1] = PawnStartRow(color) /\ GetPiece(grid, double_forward) = None
                     THEN << double_forward >> ELSE <<>>)
               ELSE <<>>
        dys == <<-1, 1>>
        caps == ConcatAll([i \in 1..2 |->
                    LET capture == <<pos[1] + d, pos[2] + dys[i]>>
                    IN  IF capture[2] >= 0 /\ capture[2] < N
                           /\ GetPiece(grid, capture) # None
                           /\ GetPiece(grid, capture).color # color
                        THEN << capture >> ELSE <<>>])
    IN  fwd \o caps

\* Archer.valid_moves
ArcherDirections == << <<-2, 0>>, <<2, 0>>, <<0, -2>>, <<0, 2>>,
                       <<-2, -2>>, <<-2, 2>>, <<2, -2>>, <<2, 2>> >>
ArcherDiagonals == << <<-1, -1>>, <<-1, 1>>, <<1, -1>>, <<1, 1>> >>

\* the second loop of Archer.valid_moves with the empty squares added as well
ArcherRayAddsEmpty(grid, x, y, dx, dy, color) == LinearRay(grid, x, y, dx, dy, color)

\* one diagonal of the second loop of Archer.valid_moves: only the first piece met
RECURSIVE ArcherRay(_, _, _, _, _, _)
ArcherRay(grid, x, y, dx, dy, color) ==
    LET nx == x + dx
        ny == y + dy
    IN  IF InBounds(nx, ny)
        THEN IF GetPiece(grid, <<nx, ny>>) # None
             THEN IF GetPiece(grid, <<nx, ny>>).color # color
                  THEN << <<nx, ny>> >> ELSE <<>>
             ELSE ArcherRay(grid, nx, ny, dx, dy, color)
        ELSE <<>>

ArcherMoves(grid, pos, color) ==
    OffsetMoves(grid, pos, color, ArcherDirections) \o
    ConcatAll([i \in 1..Len(ArcherDiagonals) |->
        ArcherRay(grid, pos[1], pos[2], ArcherDiagonals[i][1], ArcherDiagonals[i][2], color)])

\* Striker.valid_moves: for _ in range(2) along each direction
StrikerDirections == << <<1, 0>>, <<-1, 0>>, <<0, 1>>, <<0, -1>>,
                        <<1, 1>>, <<-1, -1>>, <<1, -1>>, <<-1, 1>> >>
StrikerRange == 2

\* the loop of Striker.valid_moves without the limit of range(2)
StrikerRayNoLimit(grid, x, y, dx, dy, color, left) == LinearRay(grid, x, y, dx, dy, color)

RECURSIVE StrikerRay(_, _, _, _, _, _, _)
StrikerRay(grid, x, y, dx, dy, color, left) ==
    LET nx == x + dx
        ny == y + dy
    IN  IF left = 0 THEN <<>>
        ELSE IF InBounds(nx, ny)
        THEN IF GetPiece(grid, <<nx, ny>>) # None
             THEN IF GetPiece(grid, <<nx, ny>>).color # color
                  THEN << <<nx, ny>> >> ELSE <<>>
             ELSE << <<nx, ny>> >> \o StrikerRay(grid, nx, ny, dx, dy, color, left - 1)
        ELSE <<>>

StrikerMoves(grid, pos, color) ==
    ConcatAll([i \in 1..Len(StrikerDirections) |->
        StrikerRay(grid, pos[1], pos[2], StrikerDirections[i][1], StrikerDirections[i][2],
                   color, StrikerRange)])

\* CheckerPiece.valid_moves without the color test on the jumped piece
CheckerMovesJumpsOwn(grid, pos, color) ==
    LET dirs == IF color = "white" THEN << <<-1, -1>>, <<-1, 1>> >>
                ELSE << <<1, -1>>, <<1, 1>> >>
        steps == ConcatAll([i \in 1..Len(dirs) |->
                    LET x == pos[1] + dirs[i][1]
                        y == pos[2] + dirs[i][2]
                    IN  IF InBounds(x, y) /\ GetPiece(grid, <<x, y>>) = None
                        THEN << <<x, y>> >> ELSE <<>>])
        jumps == ConcatAll([i \in 1..Len(dirs) |->
                    LET x == pos[1] + 2 * dirs[i][1]
                        y == pos[2] + 2 * dirs[i][2]
                        middle == <<pos[1] + dirs[i][1], pos[2] + dirs[i][2]>>
                    IN  IF InBounds(x, y)
                           /\ GetPiece(grid, <<x, y>>) = None
                           /\ GetPiece(grid, middle) # None
                        THEN << <<x, y>> >> ELSE <<>>])
    IN  steps \o jumps

\* CheckerPiece.valid_moves
CheckerDirections(color) ==
    IF color = "white" THEN << <<-1, -1>>, <<-1, 1>> >> ELSE << <<1, -1>>, <<1, 1>> >>

CheckerMoves(grid, pos, color) ==
    LET dirs == CheckerDirections(color)
        steps == ConcatAll([i \in 1..Len(dirs) |->
                    LET x == pos[1] + dirs[i][1]
                        y == pos[2] + dirs[i][2]
                    IN  IF InBounds(x, y) /\ GetPiece(grid, <<x, y>>) = None
                        THEN << <<x, y>> >> ELSE <<>>])
        jumps == ConcatAll([i \in 1..Len(dirs) |->
                    LET x == pos[1] + 2 * dirs[i][1]
                        y == pos[2] + 2 * dirs[i][2]
                        middle == <<pos[1] + dirs[i][1], pos[2] + dirs[i][2]>>
                    IN  IF InBounds(x, y)
                           /\ GetPiece(grid, <<x, y>>) = None
                           /\ GetPiece(grid, middle) # None
                           /\ GetPiece(grid, middle).color # color
                        THEN << <<x, y>> >> ELSE <<>>])
    IN  steps \o jumps

\* piece.valid_moves(board, position) raises IndexError
ValidMovesRaises(grid, pos) ==
    /\ grid[pos].kind = "Pawn"
    /\ PawnRaises(pos, grid[pos].color)

\* piece.valid_moves(board, position), dispatched on the class of the piece at
\* position; the list it returns when it does not raise
ValidMoves(grid, pos) ==
    LET k == grid[pos].kind
        c == grid[pos].color
    IN  CASE k = "King" -> KingMoves(grid, pos, c)
          [] k = "Queen" -> QueenMoves(grid, pos, c)
          [] k = "Rook" -> RookMoves(grid, pos, c)
          [] k = "Bishop" -> BishopMoves(grid, pos, c)
          [] k = "Knight" -> KnightMoves(grid, pos, c)
          [] k = "Pawn" -> IF PawnRaises(pos, c) THEN <<>> ELSE PawnMoves(grid, pos, c)
          [] k = "Archer" -> ArcherMoves(grid, pos, c)
          [] k = "Striker" -> StrikerMoves(grid, pos, c)
          [] k = "Oracle" -> OracleMoves(grid, pos, c)
          [] k = "CheckerPiece" -> CheckerMoves(grid, pos, c)
          [] OTHER -> <<>>

\* is_valid_move that also asks for an empty end square
IsValidMoveToEmpty(grid, s, e) == e \in Range(ValidMoves(grid, s)) /\ grid[e] = None

\* ChessPiece.is_valid_move: end in self.valid_moves(board, start)
IsValidMove(grid, s, e) == e \in Range(ValidMoves(grid, s))

-----------------------------------------------------------------------------
(* Boards: ChessBoard and CheckerBoard objects *)

\* ChessBoard.setup_board: the pawns and the back rows
BackRow == <<"Rook", "Knight", "Bishop", "Queen", "King", "Bishop", "Knight", "Rook">>

ClassicLayout ==
    [sq \in Squares |->
        CASE sq[1] = 1 -> Piece("Pawn", "black")
          [] sq[1] = 6 -> Piece("Pawn", "white")
          [] sq[1] = 0 -> Piece(BackRow[sq[2] + 1], "black")
          [] sq[1] = 7 -> Piece(BackRow[sq[2] + 1], "white")
          [] OTHER -> None]

\* ChessBoard.add_custom_pieces
AddCustomPieces(grid) ==
    [grid EXCEPT ![<<0, 0>>] = Piece("Archer", "black"),
                 ![<<7, 0>>] = Piece("Archer", "white"),
                 ![<<0, 5>>] = Piece("Striker", "black"),
                 ![<<7, 5>>] = Piece("Striker", "white"),
                 ![<<0, 3>>] = Piece("Oracle", "black"),
                 ![<<7, 3>>] = Piece("Oracle", "white")]

\* CheckerBoard.setup_board: for j in range(i % 2, 8, 2), i < 3 black, i > 4 white
CheckersLayout ==
    [sq \in Squares |->
        IF sq[2] >= (sq[1] % 2) /\ (sq[2] - (sq[1] % 2)) % 2 = 0
        THEN IF sq[1] < 3 THEN Piece("CheckerPiece", "black")
             ELSE IF sq[1] > 4 THEN Piece("CheckerPiece", "white")
             ELSE None
        ELSE None]

\* setup_board of the class cls, called by ChessBoard.__init__(mode)
SetupBoard(cls, m) ==
    IF cls = "CheckerBoard" THEN CheckersLayout
    ELSE IF m = "modified" THEN AddCustomPieces(ClassicLayout)
    ELSE ClassicLayout

\* MoveHint.__init__ / MoveHint.clear_hints: self.hints = {}
NoHints == [m \in {} |-> "x"]

\* a board object holding the grid given
BoardOf(cls, grid) ==
    [cls |-> cls, grid |-> grid, hints |-> NoHints, threatened |-> {}, is_check |-> FALSE]

\* ChessBoard.__init__(mode), run for the class cls
NewBoard(cls, m) == BoardOf(cls, SetupBoard(cls, m))

\* MoveHint.set_hints: {move: 'x' if piece else '.' for move in valid_moves}
SetHints(piece, moves) == [m \in Range(moves) |-> IF piece # None THEN "x" ELSE "."]

\* move_piece raises: is_valid_move propagates the IndexError of valid_moves
MovePieceRaises(b, s) == b.grid[s] # None /\ ValidMovesRaises(b.grid, s)

\* the condition of move_piece: piece and piece.is_valid_move(self, start, end)
MovePieceAccepts(b, s, e) ==
    /\ b.grid[s] # None
    /\ ~ValidMovesRaises(b.grid, s)
    /\ IsValidMove(b.grid, s, e)

\* move_piece without "self.board[start[0]][start[1]] = None"
ChessBoardMovedKeepsStart(grid, s, e) == [grid EXCEPT ![e] = grid[s]]

\* the assignments of ChessBoard.move_piece
ChessBoardMoved(grid, s, e) == [grid EXCEPT ![e] = grid[s], ![s] = None]

\* CheckerBoard.move_piece without the removal of the jumped man
CheckerBoardMovedKeepsJumped(grid, s, e) == [grid EXCEPT ![e] = grid[s], ![s] = None]

\* the assignments of CheckerBoard.move_piece: the cell at the integer midpoint
\* is cleared when it holds a piece, then end and start are written
CheckerBoardMoved(grid, s, e) ==
    LET middle == <<(s[1] + e[1]) \div 2, (s[2] + e[2]) \div 2>>
        g1 == IF GetPiece(grid, middle) # None THEN [grid EXCEPT ![middle] = None] ELSE grid
    IN  [g1 EXCEPT ![e] = grid[s], ![s] = None]

\* every board moves as a CheckerBoard does
MovedAsCheckerBoard(b, s, e) == CheckerBoardMoved(b.grid, s, e)

\* the grid after a move_piece that was accepted, by the class of the board
Moved(b, s, e) ==
    IF b.cls = "CheckerBoard" THEN CheckerBoardMoved(b.grid, s, e)
    ELSE ChessBoardMoved(b.grid, s, e)

\* move_piece(start, end): the board object after the call
MovePiece(b, s, e) ==
    IF MovePieceAccepts(b, s, e) THEN [b EXCEPT !.grid = Moved(b, s, e)] ELSE b

\* highlight_moves(position): the board object after the call
HighlightRaises(b, pos) == b.grid[pos] # None /\ ValidMovesRaises(b.grid, pos)
HighlightMoves(b, pos) ==
    IF b.grid[pos] # None /\ ~ValidMovesRaises(b.grid, pos)
    THEN [b EXCEPT !.hints = SetHints(b.grid[pos], ValidMoves(b.grid, pos))]
    ELSE b

\* clear_highlight()
ClearHighlight(b) == [b EXCEPT !.hints = NoHints]

-----------------------------------------------------------------------------
(* ThreatDetector.detect_threats *)

\* the order of "for x in range(8): for y in range(8)"
ScanOrder == [i \in 1..(N * N) |-> <<(i - 1) \div N, (i - 1) % N>>]
ScanIndex(sq) == sq[1] * N + sq[2] + 1

\* no position: king_position = None
NoPos == <<>>

\* the first loop: the last king of current_turn met in scan order
KingPosition(grid, current_turn) ==
    LET kings == {sq \in Squares : grid[sq] = Piece("King", current_turn)}
    IN  IF kings = {} THEN NoPos
        ELSE CHOOSE k \in kings : \A o \in kings : ScanIndex(o) <= ScanIndex(k)

\* the squares of the second loop whose piece is asked for its moves
Attackers(grid, current_turn) ==
    {sq \in Squares : grid[sq] # None /\ grid[sq].color # current_turn}

\* the opposing pieces whose valid_moves raises
Raisers(grid, current_turn) ==
    {sq \in Attackers(grid, current_turn) : ValidMovesRaises(grid, sq)}

\* detect_threats raises: valid_moves of some opposing piece raises
DetectThreatsRaises(grid, current_turn) == Raisers(grid, current_turn) # {}

\* the opposing pieces the second loop gets through: all of them, or those
\* before the first one whose valid_moves raises
Scanned(grid, current_turn) ==
    LET raisers == Raisers(grid, current_turn)
    IN  IF raisers = {} THEN Attackers(grid, current_turn)
        ELSE {sq \in Attackers(grid, current_turn) :
                \A o \in raisers : ScanIndex(sq) < ScanIndex(o)}

\* every move the second loop looks at
ScannedMoves(grid, current_turn) ==
    UNION {Range(ValidMoves(grid, sq)) : sq \in Scanned(grid, current_turn)}

\* the board object after detect_threats(current_turn) (also when it raised:
\* the detector was cleared and filled up to the piece that raised)
DetectThreats(b, current_turn) ==
    LET moves == ScannedMoves(b.grid, current_turn)
        king_position == KingPosition(b.grid, current_turn)
    IN  [b EXCEPT
            !.threatened = {m \in moves : /\ GetPiece(b.grid, m) # None
                                          /\ GetPiece(b.grid, m).color = current_turn},
            !.is_check = \E m \in moves : m = king_position]

-----------------------------------------------------------------------------
(* The heap of board objects, copy.deepcopy and MoveHistory *)

\* the identifier of a new object: the smallest one not in use
Alloc(h) ==
    CHOOSE n \in 1..(Cardinality(DOMAIN h) + 1) :
        n \notin DOMAIN h /\ \A m \in 1..(n - 1) : m \in DOMAIN h

Put(h, id, obj) == [i \in DOMAIN h \cup {id} |-> IF i = id THEN obj ELSE h[i]]

\* objects no reference reaches are freed
Collect(h, roots) == [i \in DOMAIN h \cap roots |-> h[i]]

\* save_state without copy.deepcopy: self.history.append(board)
SaveStateNoCopy(h, hist, id) == [heap |-> h, history |-> Append(hist, id)]

\* MoveHistory.save_state(board): self.history.append(copy.deepcopy(board))
SaveState(h, hist, id) ==
    LET new == Alloc(h)
    IN  [heap |-> Put(h, new, h[id]), history |-> Append(hist, new)]

\* the early returns of undo with "steps > len(self.history)"
UndoRejectedOffByOne(hist, steps) == Len(hist) <= 1 \/ steps > Len(hist)

\* the two early returns of MoveHistory.undo
UndoRejected(hist, steps) == Len(hist) <= 1 \/ steps >= Len(hist)

\* the snapshots popped by "for _ in range(steps): if len(self.history) > 1: pop()"
Popped(hist, steps) ==
    IF steps <= 0 THEN 0
    ELSE IF steps < Len(hist) THEN steps ELSE Len(hist) - 1

\* MoveHistory.undo(steps): the heap and the history after the call and the
\* board returned (0 for None): copy.deepcopy(self.history[-1])
Undo(h, hist, steps) ==
    IF UndoRejected(hist, steps)
    THEN [heap |-> h, history |-> hist, board |-> 0]
    ELSE LET left == SubSeq(hist, 1, Len(hist) - Popped(hist, steps))
             new == Alloc(h)
         IN  [heap |-> Put(h, new, h[left[Len(left)]]), history |-> left, board |-> new]

-----------------------------------------------------------------------------
(* ChessGame and CheckerGame *)

Modes == {"classic", "modified", "checkers"}

\* ChessGame.__init__(mode): the board is a ChessBoard(mode), its copy is the
\* first entry of the history; CheckerGame.__init__ then sets
\* self.board = CheckerBoard(mode) and leaves the history as it is
NewGame(m) ==
    LET h1 == Put([i \in {} |-> 0], 1, NewBoard("ChessBoard", m))
        saved == SaveState(h1, <<>>, 1)
    IN  IF m = "checkers"
        THEN LET new == Alloc(saved.heap)
             IN  [heap |-> Collect(Put(saved.heap, new, NewBoard("CheckerBoard", m)),
                                   {new} \cup Range(saved.history)),
                  live |-> new, history |-> saved.history]
        ELSE [heap |-> saved.heap, live |-> 1, history |-> saved.history]

\* ChessGame.switch_turn
SwitchTurn(t) == IF t = "white" THEN "black" ELSE "white"

\* the record of a call: operation, arguments, result
Call(op, s, e, k, side, ret) ==
    [op |-> op, start |-> s, end |-> e, steps |-> k, side |-> side, ret |-> ret]

NoCall == Call("none", NoPos, NoPos, 0, "none", "None")

Init ==
    /\ mode \in Modes
    /\ heap = NewGame(mode).heap
    /\ live = NewGame(mode).live
    /\ history = NewGame(mode).history
    /\ turn = "white"
    /\ move_count = 0
    /\ pc = "turn"
    /\ start = NoPos
    /\ call = NoCall
    /\ pre = heap[live].grid
    /\ trail = <<heap[live].grid>>

\* play(): self.board.detect_threats(self.turn) at the top of the loop; an
\* IndexError is not caught and ends the program
DetectThreatsStep ==
    /\ pc = "turn"
    /\ LET raises == DetectThreatsRaises(heap[live].grid, turn)
       IN  /\ pc' = IF raises THEN "crashed" ELSE "select"
           /\ call' = Call("detect_threats", NoPos, NoPos, 0, turn,
                           IF raises THEN "IndexError" ELSE "None")
    /\ heap' = [heap EXCEPT ![live] = DetectThreats(heap[live], turn)]
    /\ pre' = heap[live].grid
    /\ UNCHANGED <<mode, live, history, turn, move_count, start, trail>>

\* undo_moves(n), called by input_position on "undo n" at either prompt:
\* new_board = self.history.undo(n); if new_board: self.board = new_board, switch_turn()
UndoMoves(k, cap) ==
    LET u == Undo(heap, history, k)
    IN  /\ UndoRejected(history, k) \/ move_count < cap
        /\ call' = Call("undo", NoPos, NoPos, k, "none",
                        IF u.board = 0 THEN "None" ELSE "Board")
        /\ pre' = heap[live].grid
        /\ history' = u.history
        /\ IF u.board # 0
           THEN /\ live' = u.board
                /\ heap' = Collect(u.heap, {u.board} \cup Range(u.history))
                /\ turn' = SwitchTurn(turn)
                /\ move_count' = move_count + 1
                /\ trail' = SubSeq(trail, 1, Len(trail) - Popped(history, k))
           ELSE /\ heap' = u.heap
                /\ UNCHANGED <<live, turn, move_count, trail>>
        /\ UNCHANGED <<mode, pc, start>>

\* "exit" at the first prompt
SelectExit ==
    /\ pc = "select"
    /\ pc' = "done"
    /\ UNCHANGED <<mode, heap, live, history, turn, move_count, start, call, pre,
                   trail>>

\* "undo n" at the first prompt
SelectUndo(k, cap) == pc = "select" /\ UndoMoves(k, cap)

\* a position at the first prompt: no piece or the other side's piece restarts
\* the loop; else highlight_moves(start) and the second prompt
SelectPiece(pos) ==
    /\ pc = "select"
    /\ LET b == heap[live]
           piece == GetPiece(b.grid, pos)
       IN  IF piece = None \/ piece.color # turn
           THEN /\ pc' = "turn"
                /\ UNCHANGED <<heap, start, call, pre>>
           ELSE /\ heap' = [heap EXCEPT ![live] = HighlightMoves(b, pos)]
                /\ pc' = IF HighlightRaises(b, pos) THEN "crashed" ELSE "dest"
                /\ start' = pos
                /\ call' = Call("highlight_moves", pos, NoPos, 0, "none",
                                IF HighlightRaises(b, pos) THEN "IndexError" ELSE "None")
                /\ pre' = b.grid
    /\ UNCHANGED <<mode, live, history, turn, move_count, trail>>

\* "exit" at the second prompt: clear_highlight, break
DestExit ==
    /\ pc = "dest"
    /\ heap' = [heap EXCEPT ![live] = ClearHighlight(heap[live])]
    /\ pc' = "done"
    /\ UNCHANGED <<mode, live, history, turn, move_count, start, call, pre, trail>>

\* "undo n" at the second prompt
DestUndo(k, cap) == pc = "dest" /\ UndoMoves(k, cap)

\* a position at the second prompt: move_piece(start, end); on success
\* save_state and switch_turn; then clear_highlight
DestMove(e, cap) ==
    /\ pc = "dest"
    /\ LET b == heap[live]
       IN  IF MovePieceRaises(b, start)
           THEN /\ pc' = "crashed"
                /\ call' = Call("move_piece", start, e, 0, "none", "IndexError")
                /\ UNCHANGED <<heap, history, turn, move_count, trail, start>>
           ELSE IF MovePieceAccepts(b, start, e)
           THEN /\ move_count < cap
                /\ LET moved == [heap EXCEPT ![live] = MovePiece(b, start, e)]
                       saved == SaveState(moved, history, live)
                   IN  /\ heap' = [saved.heap EXCEPT ![live] = ClearHighlight(saved.heap[live])]
                       /\ history' = saved.history
                       /\ trail' = Append(trail, moved[live].grid)
                /\ turn' = SwitchTurn(turn)
                /\ move_count' = move_count + 1
                /\ pc' = "turn"
                /\ start' = NoPos
                /\ call' = Call("move_piece", start, e, 0, "none", "True")
           ELSE /\ heap' = [heap EXCEPT ![live] = ClearHighlight(b)]
                /\ pc' = "turn"
                /\ start' = NoPos
                /\ call' = Call("move_piece", start, e, 0, "none", "False")
                /\ UNCHANGED <<history, turn, move_count, trail>>
    /\ pre' = heap[live].grid
    /\ UNCHANGED <<mode, live>>

\* what the player types at a prompt: squares and undo steps
InputSquares ==
    {<<6, 1>>, <<5, 1>>, <<4, 1>>, <<1, 0>>, <<2, 0>>, <<3, 0>>, <<4, 0>>,
     <<4, 2>>, <<3, 1>>, <<7, 1>>, <<5, 0>>}
UndoSteps == (-1)..MaxUndoSteps

\* a game in which undo commands are typed
Next ==
    \/ DetectThreatsStep
    \/ SelectExit
    \/ \E k \in UndoSteps : SelectUndo(k, MaxMoveCount)
    \/ \E pos \in InputSquares : SelectPiece(pos)
    \/ DestExit
    \/ \E k \in UndoSteps : DestUndo(k, MaxMoveCount)
    \/ \E e \in InputSquares : DestMove(e, MaxMoveCount)

Spec == Init /\ [][Next]_vars

\* a longer game in which positions only are typed
PlaySquares ==
    {<<1, 0>>, <<3, 0>>, <<4, 0>>, <<5, 0>>, <<6, 1>>, <<7, 0>>, <<7, 6>>, <<5, 7>>,
     <<6, 0>>, <<0, 1>>}

PlayNext ==
    \/ DetectThreatsStep
    \/ SelectExit
    \/ \E pos \in PlaySquares : SelectPiece(pos)
    \/ DestExit
    \/ \E e \in PlaySquares : DestMove(e, MaxPlayMoves)

PlaySpec == Init /\ [][PlayNext]_vars

-----------------------------------------------------------------------------
(* One call on a bare board: the board is any of a family of boards, the     *)
(* caller makes one call of move_piece, highlight_moves or detect_threats.   *)

\* where the piece under test stands
ChessSubjectSquares(k) ==
    {<<0, 0>>, <<7, 7>>, <<3, 3>>} \cup (IF k = "Pawn" THEN {<<6, 4>>, <<1, 4>>} ELSE {})
CheckerSubjectSquares == {<<4, 2>>, <<4, 0>>, <<1, 1>>, <<6, 7>>}

\* where another piece stands, relative to the piece under test
ChessOffsets ==
    {<<-1, 0>>, <<-2, 0>>, <<1, 0>>, <<2, 0>>, <<-1, 1>>, <<1, -1>>, <<-2, 2>>,
     <<2, -2>>, <<0, 2>>, <<3, 3>>, <<7, 0>>, <<7, 1>>}
CheckerOffsets(color) ==
    LET d == IF color = "white" THEN -1 ELSE 1
    IN  {<<d, -1>>, <<d, 1>>, <<2 * d, -2>>, <<2 * d, 2>>, <<d, 0>>, <<0, -1>>}

Shifted(p, offsets) ==
    {<<p[1] + o[1], p[2] + o[2]>> : o \in offsets} \cap Squares

\* the grid with the pieces of f (square -> color) of kind k added
Placed(grid, f, k) ==
    [sq \in Squares |-> IF sq \in DOMAIN f THEN Piece(k, f[sq]) ELSE grid[sq]]

\* a chess piece of any kind and color, alone or with one king near it
ChessBoardsOf(k) ==
    UNION {
        LET g == Placed(EmptyGrid, [x \in {p} |-> c], k)
        IN  {BoardOf("ChessBoard", g)} \cup
            {BoardOf("ChessBoard", Placed(g, [x \in {q} |-> c2], "King")) :
                q \in Shifted(p, ChessOffsets), c2 \in Colors}
        : c \in Colors, p \in ChessSubjectSquares(k)}

ChessBoards == UNION {ChessBoardsOf(k) : k \in ChessKinds}

\* a checkers man with up to MaxMen - 1 other men near it
CheckerBoards ==
    UNION {
        LET g == Placed(EmptyGrid, [x \in {p} |-> c], "CheckerPiece")
        IN  UNION {
                {BoardOf("CheckerBoard", Placed(g, f, "CheckerPiece")) : f \in [S -> Colors]}
                : S \in {T \in SUBSET Shifted(p, CheckerOffsets(c)) :
                            Cardinality(T) <= MaxMen - 1}}
        : c \in Colors, p \in CheckerSubjectSquares}

BoardInit ==
    /\ mode = "api"
    /\ \E b \in ChessBoards \cup CheckerBoards : heap = Put([i \in {} |-> 0], 1, b)
    /\ live = 1
    /\ history = <<>>
    /\ turn = "white"
    /\ move_count = 0
    /\ pc = "api"
    /\ start = NoPos
    /\ call = NoCall
    /\ pre = heap[live].grid
    /\ trail = <<heap[live].grid>>

\* the squares a caller passes as start: every piece and one empty square
EmptyProbe == <<4, 7>>
Occupied(grid) == {sq \in Squares : grid[sq] # None}

\* board.move_piece(start, end)
ApiMovePiece(s, e) ==
    /\ pc = "api"
    /\ LET b == heap[live]
       IN  /\ heap' = [heap EXCEPT ![live] = IF MovePieceRaises(b, s) THEN b
                                             ELSE MovePiece(b, s, e)]
           /\ call' = Call("move_piece", s, e, 0, "none",
                           IF MovePieceRaises(b, s) THEN "IndexError"
                           ELSE IF MovePieceAccepts(b, s, e) THEN "True" ELSE "False")
           /\ pre' = b.grid
    /\ pc' = "returned"
    /\ UNCHANGED <<mode, live, history, turn, move_count, start, trail>>

\* board.highlight_moves(position)
ApiHighlightMoves(pos) ==
    /\ pc = "api"
    /\ LET b == heap[live]
       IN  /\ heap' = [heap EXCEPT ![live] = HighlightMoves(b, pos)]
           /\ call' = Call("highlight_moves", pos, NoPos, 0, "none",
                           IF HighlightRaises(b, pos) THEN "IndexError" ELSE "None")
           /\ pre' = b.grid
    /\ pc' = "returned"
    /\ UNCHANGED <<mode, live, history, turn, move_count, start, trail>>

\* board.detect_threats(current_turn)
ApiDetectThreats(side) ==
    /\ pc = "api"
    /\ LET b == heap[live]
       IN  /\ heap' = [heap EXCEPT ![live] = DetectThreats(b, side)]
           /\ call' = Call("detect_threats", NoPos, NoPos, 0, side,
                           IF DetectThreatsRaises(b.grid, side) THEN "IndexError"
                           ELSE "None")
           /\ pre' = b.grid
    /\ pc' = "returned"
    /\ UNCHANGED <<mode, live, history, turn, move_count, start, trail>>

\* the caller's start squares and, for move_piece, every end square
BoardNext ==
    \/ (pc = "api" /\ \E s \in Occupied(heap[live].grid) \cup {EmptyProbe}, e \in Squares :
                          ApiMovePiece(s, e))
    \/ (pc = "api" /\ \E pos \in Occupied(heap[live].grid) \cup {EmptyProbe} :
                          ApiHighlightMoves(pos))
    \/ (pc = "api" /\ \E side \in Colors : ApiDetectThreats(side))

BoardSpec == BoardInit /\ [][BoardNext]_vars

-----------------------------------------------------------------------------
(* Move generation on a bare chess board: a piece of any kind and color with *)
(* up to MaxBlockers other pieces around it; the caller asks for the moves   *)
(* of one piece of the board through highlight_moves.                        *)

MoveSubjectSquares(k) ==
    {<<4, 4>>, <<0, 0>>, <<7, 7>>} \cup (IF k = "Pawn" THEN {<<6, 4>>, <<1, 4>>} ELSE {})

\* where the other pieces stand, relative to the piece whose moves are generated
MoveOffsets(k) ==
    IF k = "Pawn"
    THEN {<<-1, 0>>, <<-2, 0>>, <<1, 0>>, <<2, 0>>, <<-1, -1>>, <<-1, 1>>, <<1, -1>>, <<1, 1>>}
    ELSE {<<0, 1>>, <<0, 2>>, <<0, 3>>, <<-1, -1>>, <<-2, -2>>, <<-3, -3>>, <<-1, 0>>,
          <<-2, -1>>}

\* the board with a piece of kind k and color c on p and the pawns of f around it
MoveBoard(k, c, p, f) ==
    BoardOf("ChessBoard",
            Placed(Placed(EmptyGrid, [x \in {p} |-> c], k), f, "Pawn"))

\* the sets of squares the other pieces stand on
BlockerSquares(k, p) ==
    {T \in SUBSET Shifted(p, MoveOffsets(k)) : Cardinality(T) <= MaxBlockers}

MovesInit ==
    /\ mode = "api"
    /\ \E k \in ChessKinds, c \in Colors :
          \E p \in MoveSubjectSquares(k) :
             \E S \in BlockerSquares(k, p) :
                \E f \in [S -> Colors] :
                   heap = Put([i \in {} |-> 0], 1, MoveBoard(k, c, p, f))
    /\ live = 1
    /\ history = <<>>
    /\ turn = "white"
    /\ move_count = 0
    /\ pc = "api"
    /\ start = NoPos
    /\ call = NoCall
    /\ pre = heap[live].grid
    /\ trail = <<heap[live].grid>>

MovesNext == pc = "api" /\ \E pos \in Occupied(heap[live].grid) : ApiHighlightMoves(pos)

MovesSpec == MovesInit /\ [][MovesNext]_vars

-----------------------------------------------------------------------------
(* Calls of move_piece, one after the other, on a CheckerBoard that starts   *)
(* from the checkers layout; the caller moves men of either color.           *)

CheckersInit ==
    /\ mode = "api"
    /\ heap = Put([i \in {} |-> 0], 1, NewBoard("CheckerBoard", "checkers"))
    /\ live = 1
    /\ history = <<>>
    /\ turn = "white"
    /\ move_count = 0
    /\ pc = "api"
    /\ start = NoPos
    /\ call = NoCall
    /\ pre = heap[live].grid
    /\ trail = <<heap[live].grid>>

\* board.move_piece(s, e); move_count counts the calls that were accepted
CheckersMovePiece(s, e) ==
    /\ pc = "api"
    /\ move_count < MaxCheckerMoves
    /\ LET b == heap[live]
       IN  /\ heap' = [heap EXCEPT ![live] = MovePiece(b, s, e)]
           /\ call' = Call("move_piece", s, e, 0, "none",
                           IF MovePieceAccepts(b, s, e) THEN "True" ELSE "False")
           /\ pre' = b.grid
           /\ move_count' = IF MovePieceAccepts(b, s, e) THEN move_count + 1 ELSE move_count
    /\ UNCHANGED <<mode, live, history, turn, pc, start, trail>>

\* the caller's squares: a man of the board and one of its destinations
CheckersNext ==
    \E s \in Occupied(heap[live].grid) :
        \E e \in Range(ValidMoves(heap[live].grid, s)) : CheckersMovePiece(s, e)

CheckersSpec == CheckersInit /\ [][CheckersNext]_vars

-----------------------------------------------------------------------------
(* The claims *)

LiveGrid == heap[live].grid

\* the squares valid_moves lists for the piece at s; none when it raises
LegalDestinations(grid, s) ==
    IF grid[s] = None \/ ValidMovesRaises(grid, s) THEN {} ELSE Range(ValidMoves(grid, s))

\* the last call was move_piece and returned True
MoveAccepted == call.op = "move_piece" /\ call.ret = "True"

\* C1: on every board, chess or checkers, and for every start and end: when
\* start is empty or end is not a legal destination of the piece at start,
\* move_piece returns False and all 64 squares are as before the call.
C1_RejectedMoveReturnsFalse ==
    (/\ call.op = "move_piece"
     /\ (pre[call.start] = None \/ call.end \notin LegalDestinations(pre, call.start)))
    => (call.ret = "False" /\ LiveGrid = pre)

\* the layout a game of mode m starts from
InitialLayout(m) == IF m = "checkers" THEN CheckersLayout ELSE SetupBoard("ChessBoard", m)

\* C2: after N successful moves in a row from the start of a game of any mode,
\* undo(k) with 1 <= k <= N leaves the live board equal, square by square, to
\* the board of k moves earlier; for k = N that is the mode's initial layout.
C2_UndoRestoresEarlierBoard ==
    (/\ call.op = "undo" /\ call.ret = "Board" /\ call.steps >= 1
     /\ move_count = Len(history) + call.steps)
    => (/\ LiveGrid = trail[Len(trail)]
        /\ (Len(history) = 1 => LiveGrid = InitialLayout(mode)))

\* C3: move_piece(s, e) succeeds exactly when s holds a piece and e is one of
\* the destinations highlight_moves(s) shows on the same board: is_valid_move,
\* the only gate of move_piece, is membership in the list of valid_moves.
C3_MoveGateIsHighlightedList ==
    call.op = "move_piece"
    => (call.ret = "True"
        <=> (/\ pre[call.start] # None
             /\ call.end \in DOMAIN HighlightMoves([heap[live] EXCEPT !.grid = pre],
                                                   call.start).hints))

C3_Witness ==
    /\ mode = "api"
    /\ MoveAccepted
    /\ pre[call.end] # None

\* the move is a jump of two squares along a diagonal
IsJump(s, e) ==
    (e[1] - s[1] = 2 \/ s[1] - e[1] = 2) /\ (e[2] - s[2] = 2 \/ s[2] - e[2] = 2)
Midpoint(s, e) == <<(s[1] + e[1]) \div 2, (s[2] + e[2]) \div 2>>

\* C4: on a checkers board with men on any squares, a successful move_piece
\* empties start, puts the mover on end, empties the midpoint of a jump and
\* changes no other square; a successful step changes start and end only.
C4_CheckersMoveFrame ==
    (MoveAccepted /\ heap[live].cls = "CheckerBoard")
    => (/\ LiveGrid[call.start] = None
        /\ LiveGrid[call.end] = pre[call.start]
        /\ (IsJump(call.start, call.end) => LiveGrid[Midpoint(call.start, call.end)] = None)
        /\ \A sq \in Squares :
              (/\ sq # call.start
               /\ sq # call.end
               /\ ~(IsJump(call.start, call.end) /\ sq = Midpoint(call.start, call.end)))
              => LiveGrid[sq] = pre[sq])

\* C5: on a chess board (classical or variant pieces) a successful move_piece
\* leaves start empty and end holding the piece that was at start, whatever
\* end held before, and leaves the other 62 squares unchanged.
C5_ChessMoveFrame ==
    (MoveAccepted /\ heap[live].cls = "ChessBoard")
    => (/\ LiveGrid[call.start] = None
        /\ LiveGrid[call.end] = pre[call.start]
        /\ \A sq \in Squares \ {call.start, call.end} : LiveGrid[sq] = pre[sq])

C5_Witness ==
    /\ mode = "api"
    /\ MoveAccepted
    /\ heap[live].cls = "ChessBoard"
    /\ pre[call.end] # None
    /\ pre[call.end].color # pre[call.start].color

\* C6: a snapshot stored in the history is independent of the live board: no
\* step of the game (a move, also one on a board that undo returned) changes
\* the layout of a snapshot that stays in the history.
C6_SnapshotsAreIndependent ==
    [][\A i \in 1..Len(history) :
          i <= Len(history') => heap'[history'[i]].grid = heap[history[i]].grid]_vars

C6_Witness ==
    /\ MoveAccepted
    /\ Len(history) >= 3
    /\ move_count > Len(history) - 1

C8_MoveGenerationNeverFails ==
    mode \in {"classic", "modified"}
    => (/\ \A sq \in Occupied(LiveGrid) : ~ValidMovesRaises(LiveGrid, sq)
        /\ \A side \in Colors : ~DetectThreatsRaises(LiveGrid, side)
        /\ pc # "crashed")

\* C9: every square valid_moves returns, for any piece on any board, has row
\* and column in 0..7; so has every square of the threat set of detect_threats.
C9_DestinationsInBounds ==
    /\ \A sq \in Occupied(LiveGrid) :
          \A m \in LegalDestinations(LiveGrid, sq) : InBounds(m[1], m[2])
    /\ \A m \in heap[live].threatened : InBounds(m[1], m[2])

\* the destinations of a checkers man as the rules give them
ManDestinations(grid, s) ==
    LET d == IF grid[s].color = "white" THEN -1 ELSE 1
    IN  {e \in Squares :
            \/ /\ e[1] = s[1] + d
               /\ (e[2] = s[2] - 1 \/ e[2] = s[2] + 1)
               /\ grid[e] = None
            \/ /\ e[1] = s[1] + 2 * d
               /\ (e[2] = s[2] - 2 \/ e[2] = s[2] + 2)
               /\ grid[e] = None
               /\ grid[Midpoint(s, e)] # None
               /\ grid[Midpoint(s, e)].color # grid[s].color}

\* C10: the destinations of a checkers man are exactly the empty squares one
\* step along a forward diagonal and the empty squares two steps along a
\* forward diagonal whose midpoint holds a man of the other color.
C10_CheckerDestinations ==
    \A s \in Occupied(LiveGrid) :
        LiveGrid[s].kind = "CheckerPiece"
        => Range(ValidMoves(LiveGrid, s)) = ManDestinations(LiveGrid, s)

C10_Witness ==
    /\ call.op = "highlight_moves"
    /\ LiveGrid[call.start].kind = "CheckerPiece"
    /\ \E m \in DOMAIN heap[live].hints : IsJump(call.start, m)
    /\ \E m \in DOMAIN heap[live].hints : ~IsJump(call.start, m)

\* the last call was highlight_moves, and it returned
Highlighted == call.op = "highlight_moves" /\ call.ret = "None"

Orthogonals == {<<1, 0>>, <<-1, 0>>, <<0, 1>>, <<0, -1>>}
Diagonals == {<<1, 1>>, <<1, -1>>, <<-1, 1>>, <<-1, -1>>}
RayDirections(kind) ==
    CASE kind = "Rook" -> Orthogonals
      [] kind = "Bishop" -> Diagonals
      [] OTHER -> Orthogonals \cup Diagonals

\* the square n steps from s in direction d
Step(s, d, n) == <<s[1] + n * d[1], s[2] + n * d[2]>>

\* the square n steps from s in direction d is on the board and only empty
\* squares lie between it and s
ClearPath(grid, s, d, n) ==
    /\ Step(s, d, n) \in Squares
    /\ \A m \in 1..(n - 1) : grid[Step(s, d, m)] = None

\* e is empty or holds a piece of the other color than the piece on s
EmptyOrEnemy(grid, s, e) == grid[e] = None \/ grid[e].color # grid[s].color

\* the destinations of a ray piece on s: along each direction the empty squares
\* up to the first occupied square, and that square when it holds an enemy
RayDestinations(grid, s, dirs, reach) ==
    UNION {{Step(s, d, n) : n \in {m \in 1..reach : /\ ClearPath(grid, s, d, m)
                                                     /\ EmptyOrEnemy(grid, s, Step(s, d, m))}}
           : d \in dirs}

\* C11: for a Rook, Bishop or Queen anywhere on any board the destinations are,
\* in each of its directions, the empty squares before the first occupied
\* square and that square iff it holds an enemy; nothing beyond it.
C11_RayDestinations ==
    \A s \in Occupied(LiveGrid) :
        LiveGrid[s].kind \in {"Rook", "Bishop", "Queen"}
        => Range(ValidMoves(LiveGrid, s))
             = RayDestinations(LiveGrid, s, RayDirections(LiveGrid[s].kind), N - 1)

C11_Witness ==
    /\ Highlighted
    /\ LiveGrid[call.start].kind \in {"Rook", "Bishop"}
    /\ \E e \in DOMAIN heap[live].hints : LiveGrid[e] # None
    /\ \E d \in RayDirections(LiveGrid[call.start].kind) :
          /\ Step(call.start, d, 1) \in DOMAIN heap[live].hints
          /\ Step(call.start, d, 2) \in Occupied(LiveGrid)
          /\ LiveGrid[Step(call.start, d, 2)].color = LiveGrid[call.start].color
          /\ Step(call.start, d, 3) \in Squares

\* the destinations of a pawn on s as the rules give them
PawnDestinations(grid, s) ==
    LET d == IF grid[s].color = "white" THEN -1 ELSE 1
        start_rank == IF grid[s].color = "white" THEN 6 ELSE 1
        one == Step(s, <<d, 0>>, 1)
        two == Step(s, <<d, 0>>, 2)
    IN  {e \in Squares :
            \/ e = one /\ grid[e] = None
            \/ e = two /\ s[1] = start_rank /\ grid[one] = None /\ grid[two] = None
            \/ /\ e \in {Step(s, <<d, -1>>, 1), Step(s, <<d, 1>>, 1)}
               /\ grid[e] # None
               /\ grid[e].color # grid[s].color}

\* C12: for a pawn of either color anywhere on any board, the two-square
\* advance is offered iff the pawn is on its start rank and both squares ahead
\* are empty, the one-square advance iff that square is empty, a forward
\* diagonal square iff it holds an enemy; nothing else is offered.
C12_PawnDestinations ==
    \A s \in Occupied(LiveGrid) :
        LiveGrid[s].kind = "Pawn"
        => (/\ ~ValidMovesRaises(LiveGrid, s)
            /\ Range(ValidMoves(LiveGrid, s)) = PawnDestinations(LiveGrid, s))

\* the list valid_moves returns for a piece of kind k standing on s instead of
\* the piece that is there, same color
MovesAs(grid, s, k) == ValidMoves([grid EXCEPT ![s] = Piece(k, grid[s].color)], s)

\* the list holds no square twice
NoDuplicates(moves) == Cardinality(Range(moves)) = Len(moves)

\* C13: for every board, position and color the squares of the Queen's list
\* are those of the Rook's list and the Bishop's list for the same board,
\* position and color, and no square is in the Queen's list twice.
C13_QueenIsRookPlusBishop ==
    \A s \in Occupied(LiveGrid) :
        LiveGrid[s].kind = "Queen"
        => (/\ Range(ValidMoves(LiveGrid, s))
                 = Range(MovesAs(LiveGrid, s, "Rook")) \cup Range(MovesAs(LiveGrid, s, "Bishop"))
            /\ NoDuplicates(ValidMoves(LiveGrid, s)))

C13_Witness ==
    /\ Highlighted
    /\ LiveGrid[call.start].kind = "Queen"
    /\ Range(MovesAs(LiveGrid, call.start, "Rook")) # {}
    /\ Range(MovesAs(LiveGrid, call.start, "Bishop")) # {}
    /\ \E e \in DOMAIN heap[live].hints : LiveGrid[e] # None
    /\ Cardinality(Occupied(LiveGrid)) = 3

\* the squares the pieces of the other color than side can move to
EnemyDestinations(grid, side) ==
    UNION {LegalDestinations(grid, a) : a \in {sq \in Occupied(grid) : grid[sq].color # side}}

\* C14: after detect_threats(board, side) the threatened set is exactly the
\* squares that hold a piece of side and are a destination of a piece of the
\* other color, and the check flag is set iff the square of side's king is such
\* a destination (not set when side has no king).
C14_ThreatScanExact ==
    call.op = "detect_threats"
    => (/\ call.ret = "None"
        /\ heap[live].threatened
             = {e \in Squares : /\ pre[e] # None
                                /\ pre[e].color = call.side
                                /\ e \in EnemyDestinations(pre, call.side)}
        /\ heap[live].is_check
             <=> (\E k \in Squares : /\ pre[k] = Piece("King", call.side)
                                     /\ k \in EnemyDestinations(pre, call.side)))

\* C16: after highlight_moves on an occupied square the hints have exactly the
\* squares of the piece's destination list as keys, and a key is marked 'x' iff
\* that square was occupied when the list was made, '.' otherwise.
C16_HintMarkers ==
    (Highlighted /\ pre[call.start] # None)
    => (/\ DOMAIN heap[live].hints = LegalDestinations(pre, call.start)
        /\ \A m \in DOMAIN heap[live].hints :
              heap[live].hints[m] = (IF m \in Squares /\ pre[m] # None THEN "x" ELSE "."))

\* C15: in a checkers game, whatever moves and undo commands were made, the
\* live board holds checkers men only (no King or other chess piece) and the
\* check flag is not set.
C15_CheckersHasOnlyMen ==
    mode = "checkers"
    => (/\ \A sq \in Occupied(LiveGrid) : LiveGrid[sq].kind = "CheckerPiece"
        /\ ~heap[live].is_check)

\* the moves in effect: the stored history holds the start and one board a move
MovesInEffect == Len(history) - 1

\* C20: after any accepted moves and undo commands (undo k for any integer k,
\* also 0 and negative) white is to move iff the number of moves in effect is
\* even, and the move counter equals that number.
C20_TurnFollowsHistory ==
    /\ turn = "white" <=> MovesInEffect % 2 = 0
    /\ move_count = MovesInEffect

\* the fixed tables: the 8 adjacent offsets, the 8 L-shapes, the 8 offsets of
\* exactly two squares along a line or a diagonal
Adjacent == Orthogonals \cup Diagonals
LeapTable(kind) ==
    CASE kind = "King" -> Adjacent
      [] kind = "Knight" -> {o \in (-2..2) \X (-2..2) : o[1] * o[1] + o[2] * o[2] = 5}
      [] OTHER -> {Step(<<0, 0>>, d, 2) : d \in Adjacent}

\* the squares s + offset that are on the board and empty or enemy-held
LeapDestinations(grid, s, table) ==
    {e \in Squares : (\E o \in table : e = Step(s, o, 1)) /\ EmptyOrEnemy(grid, s, e)}

\* the pieces of the board other than the one on s
Others(grid, s) == Occupied(grid) \ {s}

\* C17: for a King, Knight or Oracle anywhere on any board the destinations
\* are the squares position + offset of the kind's table that are on the
\* board and empty or enemy-held, whatever stands in between; a King alone on
\* (4,4) has 8 destinations, 7 with one piece of its color next to it, 8 with
\* one enemy piece next to it.
C17_LeaperDestinations ==
    /\ \A s \in Occupied(LiveGrid) :
          LiveGrid[s].kind \in {"King", "Knight", "Oracle"}
          => Range(ValidMoves(LiveGrid, s))
               = LeapDestinations(LiveGrid, s, LeapTable(LiveGrid[s].kind))
    /\ (LiveGrid[<<4, 4>>].kind = "King" /\ Cardinality(Others(LiveGrid, <<4, 4>>)) <= 1)
       => Len(ValidMoves(LiveGrid, <<4, 4>>))
            = (IF \E q \in Others(LiveGrid, <<4, 4>>) :
                     /\ q \in LeapDestinations(EmptyGrid, <<4, 4>>, Adjacent)
                     /\ LiveGrid[q].color = LiveGrid[<<4, 4>>].color
               THEN 7 ELSE 8)

C17_Witness ==
    /\ Highlighted
    /\ LiveGrid[call.start].kind = "Oracle"
    /\ \E d \in Adjacent :
          /\ Step(call.start, d, 1) \in Occupied(LiveGrid)
          /\ Step(call.start, d, 2) \in Occupied(LiveGrid)
          /\ Step(call.start, d, 2) \in DOMAIN heap[live].hints

Abs(i) == IF i < 0 THEN -i ELSE i
\* the number of king steps between two squares
Distance(s, e) ==
    IF Abs(e[1] - s[1]) > Abs(e[2] - s[2]) THEN Abs(e[1] - s[1]) ELSE Abs(e[2] - s[2])

\* the first occupied square of a diagonal of s, when it holds an enemy
DiagonalCaptures(grid, s) ==
    UNION {{Step(s, d, n) : n \in {m \in 1..(N - 1) : /\ ClearPath(grid, s, d, m)
                                                       /\ grid[Step(s, d, m)] # None
                                                       /\ grid[Step(s, d, m)].color # grid[s].color}}
           : d \in Diagonals}

\* C18: the destinations of an Archer are (a) the squares exactly 2 steps away
\* along a line or diagonal that are on the board and empty or enemy-held,
\* whatever stands in between, and (b) on each diagonal the first occupied
\* square iff it holds an enemy; so a destination at another distance than 2
\* holds an enemy, and no empty square at another distance is a destination.
C18_ArcherDestinations ==
    \A s \in Occupied(LiveGrid) :
        LiveGrid[s].kind = "Archer"
        => (/\ Range(ValidMoves(LiveGrid, s))
                 = LeapDestinations(LiveGrid, s, LeapTable("Oracle"))
                        \cup DiagonalCaptures(LiveGrid, s)
            /\ \A e \in Range(ValidMoves(LiveGrid, s)) :
                  Distance(s, e) # 2 => e \in DiagonalCaptures(LiveGrid, s))

C18_Witness ==
    /\ Highlighted
    /\ LiveGrid[call.start].kind = "Archer"
    /\ \E e \in DOMAIN heap[live].hints : Distance(call.start, e) = 3
    /\ \E d \in Orthogonals :
          /\ Step(call.start, d, 1) \in Occupied(LiveGrid)
          /\ Step(call.start, d, 2) \in DOMAIN heap[live].hints

\* C19: the destinations of a Striker are those destinations of a Queen of
\* the same color on the same square of the same board that are at most 2
\* steps away.
C19_StrikerIsShortQueen ==
    \A s \in Occupied(LiveGrid) :
        LiveGrid[s].kind = "Striker"
        => Range(ValidMoves(LiveGrid, s))
             = {e \in Range(MovesAs(LiveGrid, s, "Queen")) : Distance(s, e) <= 2}

C19_Witness ==
    /\ Highlighted
    /\ LiveGrid[call.start].kind = "Striker"
    /\ \E e \in DOMAIN heap[live].hints : LiveGrid[e] # None /\ Distance(call.start, e) = 2
    /\ \E e \in Range(MovesAs(LiveGrid, call.start, "Queen")) : Distance(call.start, e) = 3
    /\ \E d \in Adjacent :
          /\ Step(call.start, d, 1) \in Occupied(LiveGrid)
          /\ Step(call.start, d, 1) \notin DOMAIN heap[live].hints

\* C21: every move the game loop applies moves a piece of the side that is to
\* move when the move is applied, whatever selections and undo commands, at
\* either prompt, came before it (switch_turn has run when the call is over, so
\* the mover is of the other color than turn).
C21_MoverIsSideToMove ==
    (mode \in Modes /\ MoveAccepted) => pre[call.start].color = Other(turn)

\* the number of pieces of color c on the grid
Count(grid, c) == Cardinality({sq \in Occupied(grid) : grid[sq].color = c})

\* C22: on a CheckerBoard that starts from the checkers layout, after any
\* successful calls of move_piece the pieces are men on squares with row + col
\* even; a successful step leaves the number of men of each color as it was, a
\* successful jump removes exactly one man, of the other color than the mover.
C22_CheckersFromStart ==
    /\ \A sq \in Occupied(LiveGrid) :
          LiveGrid[sq].kind = "CheckerPiece" /\ (sq[1] + sq[2]) % 2 = 0
    /\ MoveAccepted
       => LET mover == pre[call.start].color
              taken == IF IsJump(call.start, call.end) THEN 1 ELSE 0
          IN  /\ Count(LiveGrid, mover) = Count(pre, mover)
              /\ Count(LiveGrid, Other(mover)) = Count(pre, Other(mover)) - taken

C22_Witness ==
    /\ MoveAccepted
    /\ IsJump(call.start, call.end)
    /\ Count(LiveGrid, "white") + Count(LiveGrid, "black") = 23

\* the enemy pieces a successful move_piece(s, e) takes by the rules of the
\* board: the man jumped over in checkers, the enemy piece on e in chess
Taken(cls, grid, s, e) ==
    IF cls = "CheckerBoard"
    THEN (IF IsJump(s, e) THEN 1 ELSE 0)
    ELSE (IF grid[e] # None /\ grid[e].color # grid[s].color THEN 1 ELSE 0)

\* C23: on every board reached from an initial layout, a successful
\* move_piece removes no piece of the mover's color, and it removes one piece of
\* the other color iff the destination held an enemy piece (chess board) or
\* the move is a jump (checkers board), none otherwise.
C23_MoveRemovesOnlyTheCaptured ==
    (mode \in Modes /\ MoveAccepted)
    => LET mover == pre[call.start].color
       IN  /\ Count(LiveGrid, mover) = Count(pre, mover)
           /\ Count(LiveGrid, Other(mover))
                = Count(pre, Other(mover)) - Taken(heap[live].cls, pre, call.start, call.end)

C23_Witness ==
    /\ mode \in Modes
    /\ MoveAccepted
    /\ heap[live].cls = "ChessBoard"
    /\ Taken(heap[live].cls, pre, call.start, call.end) = 1

\* C24: for every piece kind, board and position where valid_moves returns a
\* list, the list holds no square more than once.
C24_NoSquareTwice ==
    \A s \in Occupied(LiveGrid) :
        ~ValidMovesRaises(LiveGrid, s) => NoDuplicates(ValidMoves(LiveGrid, s))

====
